---- MODULE Spec2Model ----
(***************************************************************************)
(* Model of mailer.py: the serial reader thread (reader_thread), the link  *)
(* opening loop (open_serial_blocking), line framing, parse_json_line,     *)
(* the bounded deques, check_alerts, the cooldown gate and send_mail, and  *)
(* the plotting callback (update) that reads the deques from the main      *)
(* thread.                                                                 *)
(*                                                                         *)
(* Bytes on the wire are tokens: "NL" is b"\n", "SP" a blank, "LB" and     *)
(* "RB" the braces of a JSON object, "#" a byte of free text, "XFF" a byte *)
(* that is not valid UTF-8.  Every other token stands for the text of one  *)
(* or more "key":value members of a JSON object (see Members).             *)
(***************************************************************************)
EXTENDS Integers, Sequences, FiniteSets, TLC

\* ------------------------------------------------------------------ bounds
\* Number of lines the sensor controller writes in one run.
MaxLines == 3
\* Largest value of the clock (seconds, see Epoch).
MaxTime == 2

\* -------------------------------------------------------- program constants
\* COOLDOWN_S and WINDOW_SEC come from the environment; the model runs them
\* scaled down.
COOLDOWN_S == 1
WINDOW_SEC == 2
maxlen == WINDOW_SEC

ALERT_THRESHOLDS ==
    [gas |-> 300, sound |-> 500, water |-> 300, vibration |-> 1,
     temp_high |-> 35, temp_low |-> 10,
     humidity_high |-> 80, humidity_low |-> 20]

\* time.time() is seconds since 1970, far above COOLDOWN_S, while last_email
\* starts at 0.0: the clock of the model starts at the smallest value that
\* keeps "time.time() - 0.0 >= COOLDOWN_S" true at start-up.
Epoch == COOLDOWN_S

\* ------------------------------------------------------------ JSON values
Keys == {"gas", "sound", "water", "vibration", "temp", "humidity", "motion"}

Num(n) == [k |-> "num", v |-> n]
Null == [k |-> "null", v |-> 0]        \* Python None (JSON null)
Absent == [k |-> "absent", v |-> 0]    \* key not in the dict
Str == [k |-> "str", v |-> 0]          \* a JSON string such as "x"

EmptyDict == [key \in Keys |-> Absent]

\* json.loads gives the Python bool for true and false; bool is a subclass of
\* int with True == 1 and False == 0 in every comparison, float(), int() and
\* format() of this program, so the model keeps them as these numbers.
PyTrue == Num(1)
PyFalse == Num(0)

\* dict.get(key, default)
Get(payload, key, default) ==
    IF payload[key].k = "absent" THEN default ELSE payload[key]

\* Python truth value of a JSON value
Truthy(val) ==
    CASE val.k = "num" -> val.v # 0
      [] val.k = "str" -> TRUE
      [] OTHER -> FALSE

\* "x or 0"
OrZero(val) == IF Truthy(val) THEN val ELSE Num(0)

\* float(x) / int(x) succeed on numbers, raise on a non-numeric string or None
Convertible(val) == val.k = "num"

\* "x > threshold" raises TypeError unless x is a number
Comparable(val) == val.k = "num"

\* format(x, "3.0f") raises unless x is a number
Formattable(val) == val.k = "num"

\* ------------------------------------------------------------ check_alerts
Alert(kind, value) == [kind |-> kind, value |-> value]

\* The optional field read with the default 0 in place of None.
HighLowDefaultZero(val, hi, lo, hiKind, loKind) ==
    IF val.k \in {"absent", "null"}
    THEN (IF 0 < lo THEN <<Alert(loKind, 0)>> ELSE <<>>)
    ELSE IF val.v > hi THEN <<Alert(hiKind, val.v)>>
    ELSE IF val.v < lo THEN <<Alert(loKind, val.v)>>
    ELSE <<>>

\* temp = payload.get('temp'); if temp is not None: if temp > high ... elif
\* temp < low ... (and the same for humidity)
HighLow(val, hi, lo, hiKind, loKind) ==
    IF val.k \in {"absent", "null"} THEN <<>>
    ELSE IF val.v > hi THEN <<Alert(hiKind, val.v)>>
    ELSE IF val.v < lo THEN <<Alert(loKind, val.v)>>
    ELSE <<>>

\* The comparison with ">=" in place of ">".
HighOrEqual(val, thr, kind) ==
    IF val.v >= thr THEN <<Alert(kind, val.v)>> ELSE <<>>

\* if payload.get(key, 0) > ALERT_THRESHOLDS[key]: alerts.append(f"...{value}")
High(val, thr, kind) == IF val.v > thr THEN <<Alert(kind, val.v)>> ELSE <<>>

IsOne(val) == val.k = "num" /\ val.v = 1

check_alerts(payload) ==
    LET g == Get(payload, "gas", Num(0))
        s == Get(payload, "sound", Num(0))
        w == Get(payload, "water", Num(0))
        vb == Get(payload, "vibration", Num(0))
        t == Get(payload, "temp", Null)
        h == Get(payload, "humidity", Null)
        m == Get(payload, "motion", Num(0))
        raised == \/ ~Comparable(g) \/ ~Comparable(s) \/ ~Comparable(w)
                  \/ (t.k # "null" /\ ~Comparable(t))
                  \/ (h.k # "null" /\ ~Comparable(h))
    IN  [raised |-> raised,
         alerts |-> IF raised THEN <<>>
                    ELSE High(g, ALERT_THRESHOLDS.gas, "HIGH GAS")
                      \o High(s, ALERT_THRESHOLDS.sound, "HIGH SOUND")
                      \o High(w, ALERT_THRESHOLDS.water, "HIGH WATER")
                      \o (IF IsOne(vb) THEN <<Alert("VIBRATION DETECTED", 1)>> ELSE <<>>)
                      \o HighLow(t, ALERT_THRESHOLDS.temp_high, ALERT_THRESHOLDS.temp_low,
                                 "HIGH TEMP", "LOW TEMP")
                      \o HighLow(h, ALERT_THRESHOLDS.humidity_high,
                                 ALERT_THRESHOLDS.humidity_low,
                                 "HIGH HUMIDITY", "LOW HUMIDITY")
                      \o (IF IsOne(m) THEN <<Alert("MOTION DETECTED", 1)>> ELSE <<>>)]

\* The [DATA] print of lines 217-223 raises when a formatted field is None
\* or a string: gas, sound and water are read without a default.
PrintRaises(payload) ==
    \/ ~Formattable(Get(payload, "gas", Null))
    \/ ~Formattable(Get(payload, "sound", Null))
    \/ ~Formattable(Get(payload, "water", Null))
    \/ ~Formattable(Get(payload, "vibration", Num(0)))
    \/ ~Formattable(Get(payload, "temp", Num(0)))
    \/ ~Formattable(Get(payload, "humidity", Num(0)))
    \/ ~Formattable(Get(payload, "motion", Num(0)))

\* ---------------------------------------------------- bytes, text, parsing
\* The members each token of a frame's text carries.
Members(tok) ==
    CASE tok = "F_ok" ->
           [gas |-> Num(100), sound |-> Num(100), water |-> Num(100),
            vibration |-> Num(0), temp |-> Num(20), humidity |-> Num(50),
            motion |-> Num(0)]
      [] tok = "F_gas" ->
           [gas |-> Num(350), sound |-> Num(100), water |-> Num(100),
            vibration |-> Num(0), temp |-> Num(20), humidity |-> Num(50),
            motion |-> Num(0)]
      [] tok = "F_vib" -> [EmptyDict EXCEPT !.vibration = Num(1)]
      [] tok = "F_badsnd" -> [EmptyDict EXCEPT !.gas = Num(100), !.sound = Str]
      [] tok = "F_tnull" -> [EmptyDict EXCEPT !.temp = Null]
      [] tok = "F_gnull" -> [EmptyDict EXCEPT !.gas = Null]
      [] OTHER -> EmptyDict

MemberTokens == {"F_ok", "F_gas", "F_vib", "F_badsnd", "F_tnull", "F_gnull"}
\* `"temp":nan` and `"gas":nan` as the Arduino prints them: not JSON until
\* "nan" is replaced.
NanTokens == {"F_tnan", "F_gnan"}

\* bytes.decode(errors="ignore")
Decode(raw) == SelectSeq(raw, LAMBDA b : b # "XFF")

RECURSIVE LStrip(_)
LStrip(t) == IF t # <<>> /\ Head(t) = "SP" THEN LStrip(Tail(t)) ELSE t
RECURSIVE RStrip(_)
RStrip(t) ==
    IF t # <<>> /\ t[Len(t)] = "SP" THEN RStrip(SubSeq(t, 1, Len(t) - 1)) ELSE t
\* str.strip()
Strip(t) == RStrip(LStrip(t))

\* t.replace("nan", "null")
ReplaceNan(t) ==
    [i \in 1..Len(t) |->
        IF t[i] \notin NanTokens THEN t[i]
        ELSE IF t[i] = "F_gnan" THEN "F_gnull" ELSE "F_tnull"]

\* dict built from the members in order; a later member overrides an earlier
Merge(p, q) == [key \in Keys |-> IF q[key].k # "absent" THEN q[key] ELSE p[key]]
RECURSIVE Fold(_)
Fold(body) ==
    IF body = <<>> THEN EmptyDict
    ELSE Merge(Fold(SubSeq(body, 1, Len(body) - 1)), Members(body[Len(body)]))

NoneData == [ok |-> FALSE, d |-> EmptyDict]

\* json.loads: an object is "{", members (blanks allowed), "}"
Loads(t) ==
    LET body == SelectSeq(SubSeq(t, 2, Len(t) - 1), LAMBDA b : b # "SP")
    IN  IF /\ Len(t) >= 2 /\ t[1] = "LB" /\ t[Len(t)] = "RB"
           /\ \A i \in 1..Len(body) : body[i] \in MemberTokens
        THEN [ok |-> TRUE, d |-> Fold(body)]
        ELSE NoneData

parse_json_line(text) ==
    LET t == Strip(text)
    IN  IF t = <<>> \/ t[1] # "LB" THEN NoneData ELSE Loads(ReplaceNan(t))

\* The test left out: whatever parse_json_line returns is taken as data.
NeverFalsy(data) == FALSE

\* "if not data": None or an empty dict
Falsy(data) == ~data.ok \/ data.d = EmptyDict

\* ------------------------------------------------------------------ state
\* The lines the sensor controller can write (each is followed by "NL").
LineSet ==
    { <<"LB", "F_ok", "RB">>,       \* a nominal frame with all seven fields
      <<"LB", "F_gas", "RB">>,      \* all seven fields, gas = 350
      <<"LB", "F_badsnd", "RB">>,   \* {"gas": 100, "sound": "x"}
      <<"#">>,                      \* free text
      <<"XFF">> }                   \* a stray byte and nothing else

\* ser.read(256)
READ_SIZE == 256

VARIABLES
    FROM_EMAIL, APP_PASS,   \* TRUE when the environment sets a non-empty value
    now,                    \* time.time()
    link,                   \* the serial handle: "closed" or "open"
    pc,                     \* where reader_thread is
    buf, data, current_alerts,
    ts, gas, snd, wtr, vib, tmpC, hum, mot,
    last_email, alert_history,
    wire,                   \* bytes written by the controller, not yet read
    received,               \* history: every byte ser.read has returned
    nSent,                  \* history: number of lines written
    handed,                 \* history: the texts given to parse_json_line
    progress,               \* history: per reading, how many deques it reached
    upc,                    \* where update is ("idle" between two frames)
    x,                      \* update's local x = list(ts)
    gas_line, snd_line, wtr_line, temp_line, hum_line, mot_line, vib_line,
                            \* the data of each plotted line: [x, y]
    dispatches              \* history: the calls of send_mail, each with the
                            \* time read at the gate (gate), the time of the
                            \* call (at), how it ended (result) and the value
                            \* last_email got after it (stamped)

deques == <<ts, gas, snd, wtr, vib, tmpC, hum, mot>>
env == <<FROM_EMAIL, APP_PASS>>
plot == <<upc, x, gas_line, snd_line, wtr_line, temp_line, hum_line,
          mot_line, vib_line>>
device == <<wire, received, nSent>>
vars == <<FROM_EMAIL, APP_PASS, now, link, pc, buf, data, current_alerts,
          ts, gas, snd, wtr, vib, tmpC, hum, mot, last_email, alert_history,
          wire, received, nSent, handed, progress, dispatches,
          upc, x, gas_line, snd_line, wtr_line, temp_line, hum_line,
          mot_line, vib_line>>

start_time == Epoch

\* ax.plot([], []): a line without data
NoData == [x |-> <<>>, y |-> <<>>]

Init ==
    /\ FROM_EMAIL \in BOOLEAN
    /\ APP_PASS \in BOOLEAN
    /\ now = Epoch
    /\ link = "closed"
    /\ pc = "open"
    /\ buf = <<>>
    /\ data = EmptyDict
    /\ current_alerts = <<>>
    /\ ts = <<>> /\ gas = <<>> /\ snd = <<>> /\ wtr = <<>>
    /\ vib = <<>> /\ tmpC = <<>> /\ hum = <<>> /\ mot = <<>>
    /\ last_email = 0
    /\ alert_history = <<>>
    /\ wire = <<>> /\ received = <<>> /\ nSent = 0
    /\ handed = <<>>
    /\ progress = <<>>
    /\ dispatches = <<>>
    /\ upc = "idle"
    /\ x = <<>>
    /\ gas_line = NoData /\ snd_line = NoData /\ wtr_line = NoData
    /\ temp_line = NoData /\ hum_line = NoData
    /\ mot_line = NoData /\ vib_line = NoData

\* ------------------------------------------------------------ environment
\* time.time() returns t: the clock never goes back.
ClockValues == now..MaxTime

\* The sensor controller writes one more line; the bytes reach the input
\* buffer of the port while the port is open.
DeviceWrite ==
    /\ nSent < MaxLines
    /\ link = "open"
    /\ \E line \in LineSet : wire' = wire \o line \o <<"NL">>
    /\ nSent' = nSent + 1
    /\ UNCHANGED <<plot, env, now, link, pc, buf, data, current_alerts, deques,
                   last_email, alert_history, received, handed, progress,
                   dispatches>>

\* ---------------------------------------------------- open_serial_blocking
\* serial.Serial(...) returns a handle.
OpenOk ==
    /\ pc = "open"
    /\ link' = "open"
    /\ pc' = "read"
    /\ UNCHANGED <<plot, env, now, buf, data, current_alerts, deques, last_email,
                   alert_history, device, handed, progress, dispatches>>

\* serial.Serial(...) raises SerialException: "retrying in 3s", time.sleep(3)
\* and the next turn of "while True".
OpenPortNotReady ==
    /\ pc = "open"
    /\ UNCHANGED vars

\* serial.Serial(...) raises something that is no SerialException (pyserial
\* raises ValueError for a parameter out of range, such as BAUD): no handler
\* of open_serial_blocking or of reader_thread covers the call, at line 167 as
\* at line 234, so the exception ends the thread.
OpenRaisesOther ==
    /\ pc = "open"
    /\ pc' = "dead"
    /\ UNCHANGED <<plot, env, now, link, buf, data, current_alerts, deques,
                   last_email, alert_history, device, handed, progress,
                   dispatches>>
\* ------------------------------------------------------------ reader_thread
\* ser.read(256) returns the bytes that have arrived, at most 256 of them;
\* "buf += chunk".
ReadChunk ==
    /\ pc = "read" /\ link = "open"
    /\ wire # <<>>
    /\ \E n \in 1..Len(wire) :
          /\ n <= READ_SIZE
          /\ buf' = buf \o SubSeq(wire, 1, n)
          /\ received' = received \o SubSeq(wire, 1, n)
          /\ wire' = SubSeq(wire, n + 1, Len(wire))
    /\ pc' = "loop"
    /\ UNCHANGED <<plot, env, now, link, data, current_alerts, deques, last_email,
                   alert_history, nSent, handed, progress, dispatches>>

\* ser.read(256) times out with nothing read; time.sleep(0.02).
ReadTimeout ==
    /\ pc = "read" /\ link = "open"
    /\ wire = <<>>
    /\ UNCHANGED vars

\* ser.read raises SerialException: the handler of lines 227-234 prints
\* "Lost connection ...; reopening...", closes the handle (whatever close
\* raises being ignored), sleeps 2 s and calls open_serial_blocking().
ReadFault ==
    /\ pc = "read" /\ link = "open"
    /\ link' = "closed"
    /\ pc' = "open"
    /\ UNCHANGED <<plot, env, now, buf, data, current_alerts, deques,
                   last_email, alert_history, device, handed, progress,
                   dispatches>>

HasLine(b) == \E i \in 1..Len(b) : b[i] = "NL"
FirstNL(b) ==
    CHOOSE i \in 1..Len(b) : b[i] = "NL" /\ \A j \in 1..(i - 1) : b[j] # "NL"
\* The line taken is left in the accumulator.
SplitRestKeep(b) == b

\* raw, buf = buf.split(b"\n", 1)
SplitRaw(b) == SubSeq(b, 1, FirstNL(b) - 1)
SplitRest(b) == SubSeq(b, FirstNL(b) + 1, Len(b))
\* text = raw.decode(errors="ignore").strip()
TextOf(b) == Strip(Decode(SplitRaw(b)))

\* "while b'\n' in buf" is false: back to ser.read.
LoopExit ==
    /\ pc = "loop"
    /\ ~HasLine(buf)
    /\ pc' = "read"
    /\ UNCHANGED <<plot, env, now, link, buf, data, current_alerts, deques,
                   last_email, alert_history, device, handed, progress,
                   dispatches>>

\* A line whose text is empty: "continue".
LoopBlank ==
    /\ pc = "loop"
    /\ HasLine(buf)
    /\ TextOf(buf) = <<>>
    /\ buf' = SplitRest(buf)
    /\ UNCHANGED <<plot, env, now, link, pc, data, current_alerts, deques,
                   last_email, alert_history, device, handed, progress,
                   dispatches>>

\* A line that parse_json_line does not turn into data: "[SERIAL RAW]".
LoopRaw ==
    /\ pc = "loop"
    /\ HasLine(buf)
    /\ TextOf(buf) # <<>>
    /\ Falsy(parse_json_line(TextOf(buf)))
    /\ buf' = SplitRest(buf)
    /\ handed' = Append(handed, TextOf(buf))
    /\ UNCHANGED <<plot, env, now, link, pc, data, current_alerts, deques,
                   last_email, alert_history, device, progress, dispatches>>

\* A line that parses: on to the appends.
LoopReading ==
    /\ pc = "loop"
    /\ HasLine(buf)
    /\ TextOf(buf) # <<>>
    /\ ~Falsy(parse_json_line(TextOf(buf)))
    /\ buf' = SplitRest(buf)
    /\ handed' = Append(handed, TextOf(buf))
    /\ data' = parse_json_line(TextOf(buf)).d
    /\ pc' = "app_ts"
    /\ UNCHANGED <<plot, env, now, link, current_alerts, deques, last_email,
                   alert_history, device, progress, dispatches>>

\* An entry of a deque, with the number of the reading it comes from.
Entry(rid, val) == [rid |-> rid, val |-> val]

\* A deque without maxlen: nothing is evicted.
PushNoEvict(d, e) == Append(d, e)

\* deque(maxlen=maxlen).append
Push(d, e) == IF Len(d) >= maxlen THEN Tail(d) \o <<e>> ELSE Append(d, e)

\* The step of an append that worked, or the jump to "except Exception".
Reached == [progress EXCEPT ![Len(progress)] = @ + 1]

\* tsec = time.time() - start_time; ts.append(tsec)
AppendTs ==
    /\ pc = "app_ts"
    /\ \E t \in ClockValues :
          /\ now' = t
          /\ ts' = Push(ts, Entry(Len(progress) + 1, Num(t - start_time)))
    /\ progress' = Append(progress, 1)
    /\ pc' = "app_gas"
    /\ UNCHANGED <<plot, env, link, buf, data, current_alerts, gas, snd, wtr, vib, tmpC, hum, mot,
                   last_email, alert_history, device, handed, dispatches>>

\* gas.append(float(data.get("gas", 0) or 0))
AppendGas ==
    /\ pc = "app_gas"
    /\ LET val == OrZero(Get(data, "gas", Num(0)))
       IN  IF Convertible(val)
           THEN /\ gas' = Push(gas, Entry(Len(progress), val))
                /\ progress' = Reached
                /\ pc' = "app_snd"
           ELSE /\ pc' = "read"
                /\ UNCHANGED <<gas, progress>>
    /\ UNCHANGED <<plot, env, now, link, buf, data, current_alerts, ts, snd, wtr, vib, tmpC, hum, mot,
                   last_email, alert_history, device, handed, dispatches>>

\* snd.append(float(data.get("sound", 0) or 0))
AppendSnd ==
    /\ pc = "app_snd"
    /\ LET val == OrZero(Get(data, "sound", Num(0)))
       IN  IF Convertible(val)
           THEN /\ snd' = Push(snd, Entry(Len(progress), val))
                /\ progress' = Reached
                /\ pc' = "app_wtr"
           ELSE /\ pc' = "read"
                /\ UNCHANGED <<snd, progress>>
    /\ UNCHANGED <<plot, env, now, link, buf, data, current_alerts, ts, gas, wtr, vib, tmpC, hum, mot,
                   last_email, alert_history, device, handed, dispatches>>

\* wtr.append(float(data.get("water", 0) or 0))
AppendWtr ==
    /\ pc = "app_wtr"
    /\ LET val == OrZero(Get(data, "water", Num(0)))
       IN  IF Convertible(val)
           THEN /\ wtr' = Push(wtr, Entry(Len(progress), val))
                /\ progress' = Reached
                /\ pc' = "app_vib"
           ELSE /\ pc' = "read"
                /\ UNCHANGED <<wtr, progress>>
    /\ UNCHANGED <<plot, env, now, link, buf, data, current_alerts, ts, gas, snd, vib, tmpC, hum, mot,
                   last_email, alert_history, device, handed, dispatches>>

\* vib.append(int(data.get("vibration", 0) or 0))
AppendVib ==
    /\ pc = "app_vib"
    /\ LET val == OrZero(Get(data, "vibration", Num(0)))
       IN  IF Convertible(val)
           THEN /\ vib' = Push(vib, Entry(Len(progress), val))
                /\ progress' = Reached
                /\ pc' = "app_tmp"
           ELSE /\ pc' = "read"
                /\ UNCHANGED <<vib, progress>>
    /\ UNCHANGED <<plot, env, now, link, buf, data, current_alerts, ts, gas, snd, wtr, tmpC, hum, mot,
                   last_email, alert_history, device, handed, dispatches>>

\* tmpC.append(float(x) if x is not None else None), x = data.get("temp", None)
AppendTmp ==
    /\ pc = "app_tmp"
    /\ LET val == Get(data, "temp", Null)
       IN  IF val.k = "null" \/ Convertible(val)
           THEN /\ tmpC' = Push(tmpC, Entry(Len(progress), val))
                /\ progress' = Reached
                /\ pc' = "app_hum"
           ELSE /\ pc' = "read"
                /\ UNCHANGED <<tmpC, progress>>
    /\ UNCHANGED <<plot, env, now, link, buf, data, current_alerts, ts, gas, snd, wtr, vib, hum, mot,
                   last_email, alert_history, device, handed, dispatches>>

\* hum.append(float(x) if x is not None else None), x = data.get("humidity", None)
AppendHum ==
    /\ pc = "app_hum"
    /\ LET val == Get(data, "humidity", Null)
       IN  IF val.k = "null" \/ Convertible(val)
           THEN /\ hum' = Push(hum, Entry(Len(progress), val))
                /\ progress' = Reached
                /\ pc' = "app_mot"
           ELSE /\ pc' = "read"
                /\ UNCHANGED <<hum, progress>>
    /\ UNCHANGED <<plot, env, now, link, buf, data, current_alerts, ts, gas, snd, wtr, vib, tmpC, mot,
                   last_email, alert_history, device, handed, dispatches>>

\* mot.append(int(data.get("motion", 0) or 0))
AppendMot ==
    /\ pc = "app_mot"
    /\ LET val == OrZero(Get(data, "motion", Num(0)))
       IN  IF Convertible(val)
           THEN /\ mot' = Push(mot, Entry(Len(progress), val))
                /\ progress' = Reached
                /\ pc' = "check"
           ELSE /\ pc' = "read"
                /\ UNCHANGED <<mot, progress>>
    /\ UNCHANGED <<plot, env, now, link, buf, data, current_alerts, ts, gas, snd, wtr, vib, tmpC, hum,
                   last_email, alert_history, device, handed, dispatches>>

\* The key whose value goes to the deque of place idx in deques.
Field(idx) ==
    <<"", "gas", "sound", "water", "vibration", "temp", "humidity",
      "motion">>[idx]

\* The argument of float or int in the append to the deque of place idx.
ChannelVal(d, idx) ==
    IF idx \in {6, 7} THEN Get(d, Field(idx), Null)
    ELSE OrZero(Get(d, Field(idx), Num(0)))

\* The append to the deque of place idx does not raise.
Appendable(d, idx) ==
    \/ idx \in {6, 7} /\ ChannelVal(d, idx).k = "null"
    \/ Convertible(ChannelVal(d, idx))

\* How many deques the appends of lines 190-200 reach for the reading d: all
\* eight, or those before the first append that raises.
Depth(d) ==
    IF \A idx \in 2..8 : Appendable(d, idx) THEN 8
    ELSE (CHOOSE idx \in 2..8 :
              /\ ~Appendable(d, idx)
              /\ \A j \in 2..(idx - 1) : Appendable(d, j)) - 1

\* The deque of place idx after the appends of the reading rid.
Appended(q, idx, rid) ==
    IF Depth(data) >= idx THEN Push(q, Entry(rid, ChannelVal(data, idx)))
    ELSE q

\* Lines 189-200 in one step, for when nothing else looks at the deques
\* between two appends: tsec = time.time() - start_time, ts.append(tsec) and
\* the seven appends in order, the first that raises ending the reading in
\* the handler of line 235.
AppendAll ==
    /\ pc = "app_ts"
    /\ \E t \in ClockValues :
          /\ now' = t
          /\ ts' = Push(ts, Entry(Len(progress) + 1, Num(t - start_time)))
    /\ gas' = Appended(gas, 2, Len(progress) + 1)
    /\ snd' = Appended(snd, 3, Len(progress) + 1)
    /\ wtr' = Appended(wtr, 4, Len(progress) + 1)
    /\ vib' = Appended(vib, 5, Len(progress) + 1)
    /\ tmpC' = Appended(tmpC, 6, Len(progress) + 1)
    /\ hum' = Appended(hum, 7, Len(progress) + 1)
    /\ mot' = Appended(mot, 8, Len(progress) + 1)
    /\ progress' = Append(progress, Depth(data))
    /\ pc' = IF Depth(data) = 8 THEN "check" ELSE "read"
    /\ UNCHANGED <<plot, env, link, buf, data, current_alerts, last_email,
                   alert_history, device, handed, dispatches>>

\* current_alerts = check_alerts(data)
CheckAlerts ==
    /\ pc = "check"
    /\ IF check_alerts(data).raised
       THEN pc' = "read" /\ UNCHANGED current_alerts
       ELSE pc' = "gate" /\ current_alerts' = check_alerts(data).alerts
    /\ UNCHANGED <<plot, env, now, link, buf, data, deques, last_email,
                   alert_history, device, handed, progress, dispatches>>

\* The comparison with ">" in place of ">=".
CooldownOverStrict(t) == t - last_email > COOLDOWN_S

\* time.time() - last_email >= COOLDOWN_S, time.time() being t
CooldownOver(t) == t - last_email >= COOLDOWN_S
\* The test of the sender address alone.
SinkConfiguredFromOnly == FROM_EMAIL

\* FROM_EMAIL and APP_PASS
SinkConfigured == FROM_EMAIL /\ APP_PASS
\* The condition of the "if" of lines 206-208.
GateOpen(t) == current_alerts # <<>> /\ CooldownOver(t) /\ SinkConfigured

Gate ==
    /\ pc = "gate"
    /\ \E t \in ClockValues :
          /\ now' = t
          /\ pc' = IF GateOpen(t) THEN "send" ELSE "print"
    /\ UNCHANGED <<plot, env, link, buf, data, current_alerts, deques,
                   last_email, alert_history, device, handed, progress,
                   dispatches>>

\* send_mail(data, current_alerts): returns at once without credentials;
\* otherwise the SMTP exchange works ("ok": the alert is added to
\* alert_history) or raises and is caught inside send_mail ("fail").  Either
\* way send_mail returns normally.
SendMail ==
    /\ pc = "send"
    /\ \E outcome \in {"ok", "fail"}, t \in ClockValues :
          LET result == IF ~FROM_EMAIL \/ ~APP_PASS THEN "skipped" ELSE outcome
          IN  /\ now' = t
              /\ alert_history' =
                    IF result = "ok"
                    THEN Append(alert_history,
                                [timestamp |-> t, alerts |-> current_alerts,
                                 payload |-> data])
                    ELSE alert_history
              /\ dispatches' = Append(dispatches,
                                      [rid |-> Len(progress), gate |-> now,
                                       at |-> t, result |-> result,
                                       stamped |-> 0])
    /\ pc' = "stamp"
    /\ UNCHANGED <<plot, env, link, buf, data, current_alerts, deques,
                   last_email, device, handed, progress>>

\* The statement after the call without its effect on the global last_email.
StampNotRecorded ==
    /\ pc = "stamp"
    /\ \E t \in ClockValues : now' = t
    /\ pc' = "print"
    /\ UNCHANGED <<plot, env, link, buf, data, current_alerts, deques,
                   last_email, alert_history, device, handed, progress,
                   dispatches>>

\* last_email = time.time(), the statement after the call of send_mail.
Stamp ==
    /\ pc = "stamp"
    /\ \E t \in ClockValues :
          /\ now' = t
          /\ last_email' = t
          /\ dispatches' = [dispatches EXCEPT ![Len(dispatches)].stamped = t]
    /\ pc' = "print"
    /\ UNCHANGED <<plot, env, link, buf, data, current_alerts, deques,
                   alert_history, device, handed, progress>>

\* The [DATA] print; an exception leaves the "while" of line 177 for the
\* handler of line 235, and the outer loop goes on with ser.read.
PrintData ==
    /\ pc = "print"
    /\ pc' = IF PrintRaises(data) THEN "read" ELSE "loop"
    /\ UNCHANGED <<plot, env, now, link, buf, data, current_alerts, deques,
                   last_email, alert_history, device, handed, progress,
                   dispatches>>

Next ==
    \/ DeviceWrite
    \/ OpenOk
    \/ OpenPortNotReady
    \/ OpenRaisesOther
    \/ ReadChunk
    \/ ReadTimeout
    \/ ReadFault
    \/ LoopExit
    \/ LoopBlank
    \/ LoopRaw
    \/ LoopReading
    \/ AppendAll
    \/ CheckAlerts
    \/ Gate
    \/ SendMail
    \/ Stamp
    \/ PrintData

Spec == Init /\ [][Next]_vars
\* ------------------------------------------------------------------ update
\* What reader_thread owns: update changes none of it.
ingestion == <<env, now, link, pc, buf, data, current_alerts, deques,
               last_email, alert_history, device, handed, progress,
               dispatches>>

\* FuncAnimation calls update on the main thread: "if not ts: return",
\* else x = list(ts).  No lock is taken here or anywhere else in update.
UpdateStart ==
    /\ upc = "idle"
    /\ ts # <<>>
    /\ x' = ts
    /\ upc' = "gas"
    /\ UNCHANGED <<ingestion, gas_line, snd_line, wtr_line, temp_line,
                   hum_line, mot_line, vib_line>>

\* gas_line.set_data(x, list(gas))
UpdateGas ==
    /\ upc = "gas"
    /\ gas_line' = [x |-> x, y |-> gas]
    /\ upc' = "snd"
    /\ UNCHANGED <<ingestion, x, snd_line, wtr_line, temp_line, hum_line,
                   mot_line, vib_line>>

\* snd_line.set_data(x, list(snd))
UpdateSnd ==
    /\ upc = "snd"
    /\ snd_line' = [x |-> x, y |-> snd]
    /\ upc' = "wtr"
    /\ UNCHANGED <<ingestion, x, gas_line, wtr_line, temp_line, hum_line,
                   mot_line, vib_line>>

\* wtr_line.set_data(x, list(wtr)), then the limits of the first plot
UpdateWtr ==
    /\ upc = "wtr"
    /\ wtr_line' = [x |-> x, y |-> wtr]
    /\ upc' = "temp"
    /\ UNCHANGED <<ingestion, x, gas_line, snd_line, temp_line, hum_line,
                   mot_line, vib_line>>

\* temp_line.set_data(x, y_temp), y_temp read from tmpC
UpdateTemp ==
    /\ upc = "temp"
    /\ temp_line' = [x |-> x, y |-> tmpC]
    /\ upc' = "hum"
    /\ UNCHANGED <<ingestion, x, gas_line, snd_line, wtr_line, hum_line,
                   mot_line, vib_line>>

\* hum_line.set_data(x, y_hum), y_hum read from hum
UpdateHum ==
    /\ upc = "hum"
    /\ hum_line' = [x |-> x, y |-> hum]
    /\ upc' = "mot"
    /\ UNCHANGED <<ingestion, x, gas_line, snd_line, wtr_line, temp_line,
                   mot_line, vib_line>>

\* mot_line.set_data(x, list(mot))
UpdateMot ==
    /\ upc = "mot"
    /\ mot_line' = [x |-> x, y |-> mot]
    /\ upc' = "vib"
    /\ UNCHANGED <<ingestion, x, gas_line, snd_line, wtr_line, temp_line,
                   hum_line, vib_line>>

\* vib_line.set_data(x, list(vib)); return
UpdateVib ==
    /\ upc = "vib"
    /\ vib_line' = [x |-> x, y |-> vib]
    /\ upc' = "idle"
    /\ UNCHANGED <<ingestion, x, gas_line, snd_line, wtr_line, temp_line,
                   hum_line, mot_line>>

\* The sensor controller writes one more nominal frame.
DeviceWriteFrame ==
    /\ nSent < MaxLines
    /\ link = "open"
    /\ wire' = wire \o <<"LB", "F_ok", "RB", "NL">>
    /\ nSent' = nSent + 1
    /\ UNCHANGED <<plot, env, now, link, pc, buf, data, current_alerts,
                   deques, last_email, alert_history, received, handed,
                   progress, dispatches>>

\* reader_thread without credentials, on a link that opens and stays up and
\* brings nominal frames only, with update running on the main thread.
InitView == Init /\ ~FROM_EMAIL /\ ~APP_PASS

NextView ==
    \/ DeviceWriteFrame
    \/ OpenOk
    \/ ReadChunk
    \/ ReadTimeout
    \/ LoopExit
    \/ LoopReading
    \/ AppendTs
    \/ AppendGas
    \/ AppendSnd
    \/ AppendWtr
    \/ AppendVib
    \/ AppendTmp
    \/ AppendHum
    \/ AppendMot
    \/ CheckAlerts
    \/ Gate
    \/ PrintData
    \/ UpdateStart
    \/ UpdateGas
    \/ UpdateSnd
    \/ UpdateWtr
    \/ UpdateTemp
    \/ UpdateHum
    \/ UpdateMot
    \/ UpdateVib

SpecView == InitView /\ [][NextView]_vars

\* -------------------------------------------------------------------- main
\* plt.show() returns (the window is closed) or raises KeyboardInterrupt:
\* main prints "Monitoring stopped" and returns, and the process exits, the
\* daemon thread reader_thread ending with it.  ser is a local of
\* reader_thread; neither main nor reader_thread has a statement that closes
\* it on the way out.
Shutdown ==
    /\ upc = "idle"
    /\ upc' = "exited"
    /\ UNCHANGED <<ingestion, x, gas_line, snd_line, wtr_line, temp_line,
                   hum_line, mot_line, vib_line>>

\* The process has not exited.
Running == upc # "exited"

\* reader_thread without credentials on nominal frames, until main returns.
NextMain ==
    \/ Shutdown
    \/ Running /\ DeviceWriteFrame
    \/ Running /\ OpenOk
    \/ Running /\ OpenPortNotReady
    \/ Running /\ ReadChunk
    \/ Running /\ ReadTimeout
    \/ Running /\ ReadFault
    \/ Running /\ LoopExit
    \/ Running /\ LoopReading
    \/ Running /\ AppendAll
    \/ Running /\ CheckAlerts
    \/ Running /\ Gate
    \/ Running /\ PrintData

SpecMain == InitView /\ [][NextMain]_vars

\* ------------------------------------------------------ unusual frames
\* Lines of a controller whose frames are not the nominal ones.
OddLines ==
    { <<"LB", "RB">>,                    \* {}
      <<"LB", "F_vib", "RB">>,           \* {"vibration": true}
      <<"LB", "F_gnan", "F_vib", "RB">>, \* {"gas": nan, "vibration": true}
      <<"LB", "#">>,                     \* a frame cut short: no JSON
      <<"#">> }                          \* free text

\* The sensor controller writes one more of these lines.
DeviceWriteOdd ==
    /\ nSent < MaxLines
    /\ link = "open"
    /\ \E line \in OddLines : wire' = wire \o line \o <<"NL">>
    /\ nSent' = nSent + 1
    /\ UNCHANGED <<plot, env, now, link, pc, buf, data, current_alerts,
                   deques, last_email, alert_history, received, handed,
                   progress, dispatches>>

\* reader_thread on a link that brings these lines and can be lost and
\* opened again.
NextFrames ==
    \/ DeviceWriteOdd
    \/ OpenOk
    \/ OpenPortNotReady
    \/ ReadChunk
    \/ ReadTimeout
    \/ ReadFault
    \/ LoopExit
    \/ LoopRaw
    \/ LoopReading
    \/ AppendAll
    \/ CheckAlerts
    \/ Gate
    \/ SendMail
    \/ Stamp
    \/ PrintData

SpecFrames == Init /\ [][NextFrames]_vars

\* ------------------------------------------------ check_alerts on its own
\* The readings check_alerts is applied to: each field absent, at a threshold
\* or beyond it; gas, temp and humidity also None, as "nan" becomes.
Readings ==
    [gas : {Absent, Null, Num(300), Num(350)},
     sound : {Absent, Num(500), Num(501)},
     water : {Absent, Num(300), Num(301)},
     vibration : {Absent, PyFalse, PyTrue},
     temp : {Absent, Null, Num(5), Num(10), Num(35), Num(36)},
     humidity : {Absent, Null, Num(19), Num(20), Num(80), Num(81)},
     motion : {Absent, PyFalse, PyTrue}]

\* reader_thread about to call check_alerts(data), data being any reading.
InitAlerts ==
    /\ FROM_EMAIL = FALSE /\ APP_PASS = FALSE
    /\ now = Epoch
    /\ link = "open"
    /\ pc = "check"
    /\ buf = <<>>
    /\ data \in Readings
    /\ current_alerts = <<>>
    /\ ts = <<>> /\ gas = <<>> /\ snd = <<>> /\ wtr = <<>>
    /\ vib = <<>> /\ tmpC = <<>> /\ hum = <<>> /\ mot = <<>>
    /\ last_email = 0
    /\ alert_history = <<>>
    /\ wire = <<>> /\ received = <<>> /\ nSent = 0
    /\ handed = <<>>
    /\ progress = <<>>
    /\ dispatches = <<>>
    /\ upc = "idle"
    /\ x = <<>>
    /\ gas_line = NoData /\ snd_line = NoData /\ wtr_line = NoData
    /\ temp_line = NoData /\ hum_line = NoData
    /\ mot_line = NoData /\ vib_line = NoData

NextAlerts == CheckAlerts

SpecAlerts == InitAlerts /\ [][NextAlerts]_vars

\* ------------------------------------------------------------- properties
\* The positions of reader_thread inside the processing of one reading.
Busy == {"app_ts", "app_gas", "app_snd", "app_wtr", "app_vib", "app_tmp",
         "app_hum", "app_mot", "check", "gate", "send", "stamp", "print"}

\* The readings the entries of a deque come from.
Rids(d) == [i \in 1..Len(d) |-> d[i].rid]

\* A call of send_mail was made for reading r.
Dispatched(r) == \E i \in 1..Len(dispatches) : dispatches[i].rid = r

\* C1: last_email changes only after a call of send_mail that succeeded: a
\* failed dispatch leaves it as it was.
C1_OnlySuccessStamps ==
    [][last_email' # last_email =>
          (dispatches # <<>> /\ dispatches[Len(dispatches)].result = "ok")]_vars

\* C2: send_mail is called for a reading exactly when its alert list is not
\* empty, the cooldown is over at the time read at the gate, and both
\* credentials are set; without a sink nothing is ever dispatched and
\* last_email keeps its initial value.
C2_DispatchIff ==
    /\ pc = "send" =>
          /\ current_alerts # <<>>
          /\ now - last_email >= COOLDOWN_S
          /\ FROM_EMAIL /\ APP_PASS
    /\ (pc = "print" /\ ~Dispatched(Len(progress))) =>
          ~(/\ current_alerts # <<>>
            /\ now - last_email >= COOLDOWN_S
            /\ FROM_EMAIL /\ APP_PASS)
    /\ ~(FROM_EMAIL /\ APP_PASS) =>
          /\ dispatches = <<>>
          /\ last_email = 0
          /\ alert_history = <<>>
          /\ pc \notin {"send", "stamp"}
    /\ \A i, j \in 1..Len(dispatches) :
          i # j => dispatches[i].rid # dispatches[j].rid

\* An alerting reading went by without a dispatch because one credential is
\* missing, though the cooldown was over.
C2_Witness ==
    /\ pc = "print"
    /\ current_alerts # <<>>
    /\ FROM_EMAIL /\ ~APP_PASS
    /\ now - last_email >= COOLDOWN_S
    /\ dispatches = <<>>

\* C3: two consecutive calls of send_mail are at least COOLDOWN_S apart.
C3_CooldownBetweenCalls ==
    \A i \in 2..Len(dispatches) :
        dispatches[i].at - dispatches[i - 1].at >= COOLDOWN_S

\* Two calls of send_mail have been made, with an alerting reading between
\* them that was not dispatched.
C3_Witness ==
    /\ Len(dispatches) = 2
    /\ dispatches[1].rid = 1
    /\ dispatches[2].rid = 3
    /\ Len(handed) = 3
    /\ handed[2] = <<"LB", "F_gas", "RB">>

\* C4: with a sink, (a) an alerting reading is dispatched when there has been
\* no notification before; (b) after a dispatch that succeeded, the next
\* dispatch is for a reading whose gate time is at least COOLDOWN_S after the
\* recorded time; (c) an alerting reading that is not dispatched after a
\* success arrived less than COOLDOWN_S after the recorded time.
C4_GateSequence ==
    /\ (FROM_EMAIL /\ APP_PASS /\ pc = "print" /\ current_alerts # <<>>) =>
          dispatches # <<>>
    /\ \A i \in 2..Len(dispatches) :
          dispatches[i - 1].result = "ok" =>
              dispatches[i].gate - dispatches[i - 1].stamped >= COOLDOWN_S
    /\ (/\ FROM_EMAIL /\ APP_PASS /\ pc = "print" /\ current_alerts # <<>>
        /\ ~Dispatched(Len(progress))
        /\ dispatches # <<>>
        /\ dispatches[Len(dispatches)].result = "ok") =>
          now - dispatches[Len(dispatches)].stamped < COOLDOWN_S

\* Three alerting readings: the first dispatched with success, the second
\* inside the cooldown and not dispatched, the third dispatched exactly
\* COOLDOWN_S after the recorded success.
C4_Witness ==
    /\ Len(progress) = 3
    /\ Len(dispatches) = 2
    /\ dispatches[1].rid = 1 /\ dispatches[1].result = "ok"
    /\ dispatches[2].rid = 3
    /\ dispatches[2].gate - dispatches[1].stamped = COOLDOWN_S
    /\ handed = << <<"LB", "F_gas", "RB">>, <<"LB", "F_gas", "RB">>,
                   <<"LB", "F_gas", "RB">> >>

\* C5: between two lines, every channel deque is as long as ts and holds at
\* each index an entry of the reading whose timestamp ts holds there.
C5_Aligned ==
    pc \notin Busy =>
        \A d \in {gas, snd, wtr, vib, tmpC, hum, mot} : Rids(d) = Rids(ts)

\* The readings that appended to the deque of place idx in
\* ts, gas, snd, wtr, vib, tmpC, hum, mot: those that got that far.
Hist(idx) ==
    SelectSeq([r \in 1..Len(progress) |-> r], LAMBDA r : progress[r] >= idx)
LastN(h, n) == SubSeq(h, IF Len(h) > n THEN Len(h) - n + 1 ELSE 1, Len(h))

\* C6: no deque holds more than WINDOW_SEC entries, and each holds the most
\* recent WINDOW_SEC entries appended to it, oldest first.
C6_Window ==
    \A idx \in 1..8 :
        /\ Len(deques[idx]) <= WINDOW_SEC
        /\ Rids(deques[idx]) = LastN(Hist(idx), WINDOW_SEC)

\* WINDOW_SEC + 1 readings have been appended in full: the first is gone.
C6_Witness ==
    /\ Len(progress) = WINDOW_SEC + 1
    /\ \A r \in 1..Len(progress) : progress[r] = 8
    /\ Rids(mot) = [i \in 1..WINDOW_SEC |-> i + 1]

\* Processing the reading raises an exception that line 235 handles.
ProcessingRaises(d) ==
    \/ ~Convertible(OrZero(Get(d, "gas", Num(0))))
    \/ ~Convertible(OrZero(Get(d, "sound", Num(0))))
    \/ ~Convertible(OrZero(Get(d, "water", Num(0))))
    \/ ~Convertible(OrZero(Get(d, "vibration", Num(0))))
    \/ ~(Get(d, "temp", Null).k = "null" \/ Convertible(Get(d, "temp", Null)))
    \/ ~(Get(d, "humidity", Null).k = "null"
           \/ Convertible(Get(d, "humidity", Null)))
    \/ ~Convertible(OrZero(Get(d, "motion", Num(0))))
    \/ check_alerts(d).raised
    \/ PrintRaises(d)

\* The texts handed to parse_json_line when the bytes b come as one chunk into
\* an empty buf: the "while" of line 177 runs until no line is left or a
\* reading raises.
RECURSIVE Unsplit(_)
Unsplit(b) ==
    IF ~HasLine(b) THEN <<>>
    ELSE LET text == TextOf(b)
             parsed == parse_json_line(text)
         IN  IF text = <<>> THEN Unsplit(SplitRest(b))
             ELSE IF ~Falsy(parsed) /\ ProcessingRaises(parsed.d) THEN <<text>>
             ELSE <<text>> \o Unsplit(SplitRest(b))

\* C7: when reader_thread is back at ser.read, the lines it has handed to
\* processing are those it hands over when the same bytes come as one chunk.
C7_SplitIndependent == pc = "read" => handed = Unsplit(received)

\* C8: the data update gives to a plotted line come from one state of the
\* buffers between two readings: the y values are as many as the x values and
\* come from the same readings.
C8_ConsistentView ==
    \A l \in {gas_line, snd_line, wtr_line, temp_line, hum_line, mot_line,
              vib_line} : Rids(l.y) = Rids(l.x)

\* C9: reader_thread is never ended by an exception.
C9_ReaderAlive == pc # "dead"

\* C10: an attempt of open_serial_blocking ends with a handle or with the
\* wait before the next attempt.
C10_OpenRetriesForever ==
    [][pc = "open" => pc' \in {"open", "read"}]_vars

\* The kinds of the alerts of a list, in order.
KindsOf(alerts) == [i \in 1..Len(alerts) |-> alerts[i].kind]

\* Every field of the reading d is a number, a boolean or absent.
Typed(d) == \A key \in Keys : d[key].k \in {"num", "absent"}

\* The field key of d is there and is a number above n / below n / 1 (true).
Above(d, key, n) == d[key].k = "num" /\ d[key].v > n
Below(d, key, n) == d[key].k = "num" /\ d[key].v < n
IsTrue(d, key) == d[key].k = "num" /\ d[key].v = 1

\* The alert of check number i of the reference order for the reading d, or
\* nothing.
RefCheck(d, i) ==
    CASE i = 1 -> IF Above(d, "gas", 300)
                  THEN <<Alert("HIGH GAS", d.gas.v)>> ELSE <<>>
      [] i = 2 -> IF Above(d, "sound", 500)
                  THEN <<Alert("HIGH SOUND", d.sound.v)>> ELSE <<>>
      [] i = 3 -> IF Above(d, "water", 300)
                  THEN <<Alert("HIGH WATER", d.water.v)>> ELSE <<>>
      [] i = 4 -> IF IsTrue(d, "vibration")
                  THEN <<Alert("VIBRATION DETECTED", 1)>> ELSE <<>>
      [] i = 5 -> IF Above(d, "temp", 35)
                  THEN <<Alert("HIGH TEMP", d.temp.v)>>
                  ELSE IF Below(d, "temp", 10)
                  THEN <<Alert("LOW TEMP", d.temp.v)>> ELSE <<>>
      [] i = 6 -> IF Above(d, "humidity", 80)
                  THEN <<Alert("HIGH HUMIDITY", d.humidity.v)>>
                  ELSE IF Below(d, "humidity", 20)
                  THEN <<Alert("LOW HUMIDITY", d.humidity.v)>> ELSE <<>>
      [] i = 7 -> IF IsTrue(d, "motion")
                  THEN <<Alert("MOTION DETECTED", 1)>> ELSE <<>>

\* The reference list: the seven checks in their fixed order.
RefAlerts(d) ==
    RefCheck(d, 1) \o RefCheck(d, 2) \o RefCheck(d, 3) \o RefCheck(d, 4)
        \o RefCheck(d, 5) \o RefCheck(d, 6) \o RefCheck(d, 7)

\* C11: for a reading whose fields are numbers, booleans or absent,
\* check_alerts returns, without raising, the reference list of the fixed
\* check order, a function of the reading alone; gas = 300 gives no HIGH GAS
\* alert and gas = 350 gives one that carries 350.
C11_ReferenceList ==
    (pc # "check" /\ Typed(data)) =>
        /\ pc = "gate"
        /\ current_alerts = RefAlerts(data)
        /\ data.gas = Num(300) =>
              \A i \in 1..Len(current_alerts) :
                  current_alerts[i].kind # "HIGH GAS"
        /\ data.gas = Num(350) => current_alerts[1] = Alert("HIGH GAS", 350)

\* check_alerts has returned for gas = 350, sound at its threshold,
\* temperature 5 and motion true: three alerts in the check order.
C11_Witness ==
    /\ pc = "gate"
    /\ data.gas = Num(350) /\ data.sound = Num(500) /\ data.temp = Num(5)
    /\ data.motion = PyTrue /\ data.vibration = Absent
    /\ data.humidity = Num(20) /\ data.water = Num(300)
    /\ KindsOf(current_alerts) = <<"HIGH GAS", "LOW TEMP", "MOTION DETECTED">>

\* How many alerts of the list have one of the kinds.
CountKinds(alerts, kinds) ==
    Cardinality({i \in 1..Len(alerts) : alerts[i].kind \in kinds})

\* C13: when check_alerts returns, a temperature that is absent or None gives
\* no HIGH TEMP and no LOW TEMP, a humidity that is absent or None gives no
\* HIGH HUMIDITY and no LOW HUMIDITY, and a field that is there gives at most
\* one of its two alerts.
C13_OptionalFields ==
    pc = "gate" =>
        /\ data.temp.k \in {"absent", "null"} =>
              CountKinds(current_alerts, {"HIGH TEMP", "LOW TEMP"}) = 0
        /\ data.humidity.k \in {"absent", "null"} =>
              CountKinds(current_alerts, {"HIGH HUMIDITY", "LOW HUMIDITY"}) = 0
        /\ CountKinds(current_alerts, {"HIGH TEMP", "LOW TEMP"}) <= 1
        /\ CountKinds(current_alerts, {"HIGH HUMIDITY", "LOW HUMIDITY"}) <= 1

\* check_alerts has returned for temperature 5 with no humidity: LOW TEMP
\* and no alert about humidity.
C13_Witness ==
    /\ pc = "gate"
    /\ data.temp = Num(5) /\ data.humidity = Absent
    /\ CountKinds(current_alerts, {"LOW TEMP"}) = 1
    /\ CountKinds(current_alerts,
                  {"HIGH TEMP", "HIGH HUMIDITY", "LOW HUMIDITY"}) = 0
\* C12: check_alerts, called for a reading with vibration true, returns a
\* list with exactly one VIBRATION DETECTED alert, whatever the other fields
\* are (absent, or None after "nan" was replaced).
C12_OneVibration ==
    [][(pc = "check" /\ pc' # "check" /\ IsTrue(data, "vibration")) =>
          /\ pc' = "gate"
          /\ CountKinds(current_alerts', {"VIBRATION DETECTED"}) = 1]_vars

\* reader_thread takes the next line out of buf.
TakesLine == pc = "loop" /\ HasLine(buf) /\ buf' # buf

\* C14: taking a line that does not start with "{" or that json.loads
\* rejects changes no deque, neither last_email nor alert_history, and goes
\* on with the next line: no check_alerts, no send_mail.
C14_RawLineNoEffect ==
    [][(TakesLine /\ ~parse_json_line(TextOf(buf)).ok) =>
          /\ UNCHANGED <<deques, last_email, alert_history, current_alerts,
                         progress, dispatches>>
          /\ pc' = "loop"]_vars

\* With a sink, a free-text line and a frame cut short have been taken and
\* reader_thread is back at ser.read, with nothing recorded.
C14_Witness ==
    /\ FROM_EMAIL /\ APP_PASS
    /\ pc = "read"
    /\ handed = << <<"#">>, <<"LB", "#">> >>
    /\ buf = <<>>
    /\ ts = <<>> /\ progress = <<>> /\ dispatches = <<>>

\* The entry a channel deque gets for a field that is missing from the frame.
MissingAs(idx) == IF idx \in {6, 7} THEN Null ELSE Num(0)

\* C19: a line that starts with "{" and that json.loads accepts becomes a
\* reading whatever fields it has; its appends record a missing gas, sound,
\* water, vibration or motion as 0 and a missing temperature or humidity as
\* None, and check_alerts sees the missing fields as 0 / false.
C19_EveryFrameIsReading ==
    [][/\ (TakesLine /\ parse_json_line(TextOf(buf)).ok) =>
              /\ pc' = "app_ts"
              /\ data' = parse_json_line(TextOf(buf)).d
       /\ (pc = "app_ts" /\ pc' = "check") =>
              \A idx \in 2..8 :
                  data[Field(idx)].k = "absent" =>
                      deques'[idx][Len(deques'[idx])].val = MissingAs(idx)
       /\ (pc = "check" /\ pc' # "check" /\ Typed(data)) =>
              /\ pc' = "gate"
              /\ current_alerts' = RefAlerts(data)]_vars
\* C15: when the process has exited after a shutdown by the user, the serial
\* handle has been closed.
C15_ClosedAtExit == upc = "exited" => link = "closed"
\* C16: after a read fault, when reader_thread is at the new open attempt,
\* buf is empty: the bytes of a partial line are not kept over the reconnect.
C16_BufDiscarded == (pc = "open" /\ link = "closed") => buf = <<>>

\* C17: when reader_thread is about to read the next chunk, buf holds no
\* newline.
C17_NoLineLeft == pc = "read" => ~HasLine(buf)

\* C18: after a read fault the handle is closed and reader_thread is at a
\* new open attempt, and whenever the link is down an open attempt that
\* connects once the port can be opened is still to come.
C18_LinkLifecycle ==
    [][/\ (pc = "read" /\ link = "open" /\ pc' = "open") => link' = "closed"
       /\ link' = "closed" => pc' = "open"]_vars
\* The texts of the complete lines among the bytes b, in order, the blank
\* ones left out.
RECURSIVE TextsIn(_)
TextsIn(b) ==
    IF ~HasLine(b) THEN <<>>
    ELSE LET text == Strip(Decode(SubSeq(b, 1, FirstNL(b) - 1)))
             rest == TextsIn(SubSeq(b, FirstNL(b) + 1, Len(b)))
         IN  IF text = <<>> THEN rest ELSE <<text>> \o rest

\* How many of the texts are readings.
Readable(texts) ==
    Cardinality({i \in 1..Len(texts) : ~Falsy(parse_json_line(texts[i]))})

\* C20: the texts handed to processing, followed by the complete lines
\* still in buf, are the complete lines received, each once and in arrival
\* order; every reading among them has given one sample at most, and the
\* calls of send_mail are for different readings, in order.
C20_OnceInOrder ==
    /\ handed \o TextsIn(buf) = TextsIn(received)
    /\ Len(progress) = Readable(handed) - (IF pc = "app_ts" THEN 1 ELSE 0)
    /\ \A i \in 2..Len(dispatches) :
          dispatches[i - 1].rid < dispatches[i].rid

\* A reading for which check_alerts raised and an alerting reading whose
\* dispatch failed have been handed over, and a read fault has come with
\* part of the third line in buf.
C20_Witness ==
    /\ handed = << <<"LB", "F_gnan", "F_vib", "RB">>, <<"LB", "F_vib", "RB">> >>
    /\ Len(dispatches) = 1 /\ dispatches[1].result = "fail"
    /\ pc = "open" /\ link = "closed"
    /\ buf = <<"LB", "F_vib">>
====
